---- MODULE Spec2Model ----
(***************************************************************************)
(* The VAA processor application (teal/wormhole/pyteal/vaa-processor.py).  *)
(*                                                                         *)
(* The approval program is evaluated once per transaction of an atomic     *)
(* group ("unit").  The model executes a unit transaction by transaction,  *)
(* in increasing group index; a transaction whose program does not approve *)
(* aborts the whole unit (the AVM's group atomicity), and the scratch      *)
(* space of every transaction is discarded when the unit ends.             *)
(*                                                                         *)
(* Byte strings are sequences of numbers 0..255.  AVM opcodes are modelled *)
(* by what they do, including the ways they fail: btoi fails on more than  *)
(* 8 bytes, extract fails past the end of its argument, gloads fails       *)
(* unless the transaction read is an earlier application call of the       *)
(* group, and a program that exceeds its opcode budget fails.              *)
(*                                                                         *)
(* The state holds every byte string run-length encoded (Pack), as the     *)
(* sequence of its runs <<byte, length>>; the program reads and writes the *)
(* byte strings themselves (Unpack).                                       *)
(***************************************************************************)
EXTENDS Integers, Sequences, FiniteSets, TLC

VARIABLES
    globalState,  \* the application's global state: vphash, gsexp, gscount, keys
    savedState,   \* the global state when the running unit began (rollback on abort)
    status,       \* "idle" | "running" | "committed" | "aborted" of the unit;
                  \* "routing" | "routed" | "partitioning" when a component
                  \* is applied on its own
    gsize,        \* Global.group_size() of the unit
    payload,      \* the VAA carried in the note of the unit's transactions
    group,        \* the transactions of the unit evaluated so far, in group order
    scratch,      \* scratch slot 254 of each transaction evaluated so far
    bitfields,    \* what each transaction evaluated so far stored in slot 254
    audit,        \* outcome of check_final_verification_state in the unit, or "none"
    routed,       \* outcome of commit_vaa, or NoRoute when it was not evaluated
    handled,      \* the handlers invoked in the unit, in order
    installed,    \* the application exists (it has not been deleted)
    earlier,      \* a finished unit whose bytes are being resubmitted, or NoUnit
    partition     \* a guardian count n, a step capacity m and the signer
                  \* ranges of the steps computed so far for them

vars == <<globalState, savedState, status, gsize, payload, group, scratch,
          bitfields, audit, routed, handled, installed, earlier, partition>>

---------------------------------------------------------------------------
(* Bounds of the model *)

\* Largest guardian count a registry holds.
MaxGuardians == 5

\* Largest number of transactions in a unit.
MaxGroupSize == 3

\* Number of iterations of the audit loop the opcode budget of an
\* application call pays for.
MaxAuditIterations == 6

\* Largest guardian count and largest step capacity the partitioner is
\* applied to on its own.
MaxPartitionGuardians == 8

MaxStepCapacity == 4

---------------------------------------------------------------------------
(* Program constants *)

GOVERNANCE_CHAIN_ID_TEST == 3
GOVERNANCE_CONTRACT_ID_TEST == 4
PYTH2WORMHOLE_CHAIN_ID_TEST == 5
PYTH2WORMHOLE_CONTRACT_ID_TEST == 6

VAA_RECORD_EMITTER_CHAIN_POS == 8
VAA_RECORD_EMITTER_CHAIN_LEN == 2
VAA_RECORD_EMITTER_ADDR_POS == 10
VAA_RECORD_EMITTER_ADDR_LEN == 32

\* Width of one guardian key in the key-subset argument (Extract(.., i*64, 64)).
GUARDIAN_KEY_LEN == 64

\* Width of the verifier hash setvphash accepts.
VPHASH_LEN == 32

\* Longest byte string btoi converts.
BTOI_MAX_LEN == 8

\* globals.MAX_SIGNATURES_PER_VERIFICATION_STEP: the step capacity.
MAX_SIGNATURES_PER_VERIFICATION_STEP == 2

---------------------------------------------------------------------------
(* Byte strings and AVM opcodes *)

Rep(n, b) == [i \in 1..n |-> b]

\* The byte string whose runs are r.
RECURSIVE Unpack(_)
Unpack(r) == IF r = <<>> THEN <<>> ELSE Rep(r[1][2], r[1][1]) \o Unpack(Tail(r))

\* The runs of r followed by the runs of q, as the runs of one byte string.
Join(r, q) ==
    IF r = <<>> THEN q
    ELSE IF q = <<>> THEN r
    ELSE IF r[Len(r)][1] = q[1][1]
         THEN SubSeq(r, 1, Len(r) - 1)
              \o << <<q[1][1], r[Len(r)][2] + q[1][2]>> >> \o Tail(q)
         ELSE r \o q

\* The runs of bytes lo..hi of the byte string b.
RECURSIVE PackRange(_, _, _)
PackRange(b, lo, hi) ==
    IF lo > hi THEN <<>>
    ELSE IF lo = hi THEN << <<b[lo], 1>> >>
    ELSE LET mid == (lo + hi) \div 2
         IN  Join(PackRange(b, lo, mid), PackRange(b, mid + 1, hi))

\* The runs of the byte string b.
Pack(b) == PackRange(b, 1, Len(b))

UnpackTxn(t) ==
    [type |-> t.type, app |-> t.app, oncomp |-> t.oncomp,
     sender |-> Unpack(t.sender),
     args |-> [k \in 1..Len(t.args) |-> Unpack(t.args[k])],
     note |-> Unpack(t.note), fscratch |-> t.fscratch]

PackTxn(t) ==
    [type |-> t.type, app |-> t.app, oncomp |-> t.oncomp,
     sender |-> Pack(t.sender),
     args |-> [k \in 1..Len(t.args) |-> Pack(t.args[k])],
     note |-> Pack(t.note), fscratch |-> t.fscratch]

UnpackGlobal(g) ==
    [vphash |-> Unpack(g.vphash), gsexp |-> g.gsexp, gscount |-> g.gscount,
     keys |-> [i \in DOMAIN g.keys |-> Unpack(g.keys[i])]]

PackGlobal(g) ==
    [vphash |-> Pack(g.vphash), gsexp |-> g.gsexp, gscount |-> g.gscount,
     keys |-> [i \in DOMAIN g.keys |-> Pack(g.keys[i])]]

\* The value a failed uint64 computation yields (no uint64 is negative).
PANIC == 0 - 1

\* The value a failed byte-string computation yields (no byte is negative).
PanicBytes == << 0 - 1 >>

Min(a, b) == IF a < b THEN a ELSE b

RECURSIVE Pow2(_)
Pow2(n) == IF n = 0 THEN 1 ELSE 2 * Pow2(n - 1)

RECURSIVE BigEndian(_)
BigEndian(b) ==
    IF b = <<>> THEN 0
    ELSE 256 * BigEndian(SubSeq(b, 1, Len(b) - 1)) + b[Len(b)]

\* Btoi without the length limit.
Btoi_AnyLength(b) == IF b = PanicBytes THEN PANIC ELSE BigEndian(b)

\* btoi: big-endian bytes to uint64; fails if the input is longer than 8 bytes.
Btoi(b) ==
    IF b = PanicBytes \/ Len(b) > BTOI_MAX_LEN THEN PANIC ELSE BigEndian(b)

\* extract3: the l bytes of b from offset s; fails if s + l exceeds Len(b).
Extract(b, s, l) ==
    IF b = PanicBytes \/ s + l > Len(b) THEN PanicBytes ELSE SubSeq(b, s + 1, s + l)

\* getbit / setbit on a uint64, bit 0 the lowest.
GetBit(v, i) == (v \div Pow2(i)) % 2

\* A setbit that sets bit i and every bit below it.
SetBit_UpTo(v, i) == Pow2(i + 1) - 1

SetBit(v, i) == IF GetBit(v, i) = 1 THEN v ELSE v + Pow2(i)

\* Bytes("verify"), Bytes("setvphash")
METHOD_VERIFY == <<118, 101, 114, 105, 102, 121>>

METHOD_SETVPHASH == <<115, 101, 116, 118, 112, 104, 97, 115, 104>>

---------------------------------------------------------------------------
(* StepPartitioner: globals.get_group_size, globals.get_sig_count_in_step *)

\* ceil(n / m)
StepCount(n, m) == (n + m - 1) \div m

\* First index of step i's signer range.
RangeLo(i, m) == i * m

\* The end of step i's range without the clamp to the guardian count.
RangeHi_Unclamped(i, n, m) == (i + 1) * m

\* One past the last index of step i's signer range.
RangeHi(i, n, m) == Min((i + 1) * m, n)

get_group_size(num_guardians) ==
    StepCount(num_guardians, MAX_SIGNATURES_PER_VERIFICATION_STEP)

get_sig_count_in_step(step, num_guardians) ==
    LET lo == RangeLo(step, MAX_SIGNATURES_PER_VERIFICATION_STEP)
        hi == RangeHi(step, num_guardians, MAX_SIGNATURES_PER_VERIFICATION_STEP)
    IN  IF hi > lo THEN hi - lo ELSE 0

---------------------------------------------------------------------------
(* Accounts *)

\* Global.creator_address()
Creator == Rep(32, 9)

\* Addresses of two stateless logic programs (an address is the 32-byte
\* hash of the program).
Logic1 == Rep(32, 1)

Logic2 == Rep(32, 2)

---------------------------------------------------------------------------
(* Subroutines of the approval program *)

\* What a program leaves when it ends without writing anything.
NoRoute == [ret |-> PANIC, handler |-> "none"]

\* No unit is being resubmitted.
NoUnit == [status |-> "none"]

\* No partition is being computed.
NoPartition == [n |-> 0, m |-> 0, ranges |-> <<>>]

Outcome(result, gstate, scr, auditResult, route) ==
    [result |-> result, gstate |-> gstate, scr |-> scr,
     audit |-> auditResult, routed |-> route]

\* App.globalPut(Bytes("vphash"), Txn.application_args[0]); Approve()
bootstrap(txn, g) ==
    IF Len(txn.args) < 1 THEN Outcome("panic", g, 0, "none", NoRoute)
    ELSE Outcome("approve", [g EXCEPT !.vphash = txn.args[1]], 0, "none", NoRoute)

\* An is_creator that holds for every caller.
is_creator_Anyone(txn) == TRUE

is_creator(txn) == txn.sender = Creator

\* App.globalGet(Itob(i)): the key of guardian i; a missing entry reads as
\* the uint64 0, whose comparison with a byte string fails.
GuardianKey(g, i) == IF i \in DOMAIN g.keys THEN g.keys[i] ELSE PanicBytes

\* One evaluation of the loop of check_guardian_key_subset at index i:
\* 1 when the loop ran to its end, 0 at the first mismatch.
RECURSIVE KeySubsetLoop(_, _, _, _)
KeySubsetLoop(i, count, keysArg, g) ==
    IF ~(i < count) THEN 1
    ELSE LET stored   == GuardianKey(g, i)
             supplied == Extract(keysArg, i * GUARDIAN_KEY_LEN, GUARDIAN_KEY_LEN)
         IN  IF stored = PanicBytes \/ supplied = PanicBytes THEN PANIC
             ELSE IF stored # supplied THEN 0
             ELSE KeySubsetLoop(i + 1, count, keysArg, g)

check_guardian_key_subset(step, keysArg, g) ==
    KeySubsetLoop(0, get_sig_count_in_step(step, g.gscount), keysArg, g)

\* check_guardian_set_size accepting any claimed size.
check_guardian_set_size_Any(sizeArg, g) == 1

\* NUM_GUARDIANS == Btoi(VERIFY_ARG_GUARDIAN_SET_SIZE)
check_guardian_set_size(sizeArg, g) ==
    LET claimed == Btoi(sizeArg)
    IN  IF claimed = PANIC THEN PANIC
        ELSE IF g.gscount = claimed THEN 1 ELSE 0

handle_governance == 1

handle_pyth_price_ticker == 1

\* The chain id and contract id commit_vaa reads from the payload header.
EmitterChain(note) ==
    Btoi(Extract(note, VAA_RECORD_EMITTER_CHAIN_POS, VAA_RECORD_EMITTER_CHAIN_LEN))

EmitterContract(note) ==
    Btoi(Extract(note, VAA_RECORD_EMITTER_ADDR_POS, VAA_RECORD_EMITTER_ADDR_LEN))

\* Both operands of each And are evaluated before the comparison, so a
\* failing Btoi or Extract fails the program whatever the other operand is.
commit_vaa(note) ==
    LET chainId    == EmitterChain(note)
        contractId == EmitterContract(note)
    IN  IF chainId = PANIC \/ contractId = PANIC THEN NoRoute
        ELSE IF /\ chainId = GOVERNANCE_CHAIN_ID_TEST
                /\ contractId = GOVERNANCE_CONTRACT_ID_TEST
             THEN [ret |-> handle_governance, handler |-> "governance"]
        ELSE IF /\ chainId = PYTH2WORMHOLE_CHAIN_ID_TEST
                /\ contractId = GOVERNANCE_CONTRACT_ID_TEST
             THEN [ret |-> handle_pyth_price_ticker, handler |-> "pyth"]
        ELSE [ret |-> 0, handler |-> "none"]

\* The step expression of the audit loop: i.store(i.load() + Int(0)).
AuditIncrement(i) == i + 0

\* The Assert of the audit loop for index i, evaluated by the transaction at
\* group index gi.  txns holds the group's transactions 0..gi, scr the value
\* of scratch slot 254 of the transactions 0..gi-1.  gloads fails unless the
\* transaction read is an application call at an index below gi.
AuditBody(i, gi, txns, scr) ==
    LET isAppCall == txns[i + 1].type = "appl"
        sameApp   == txns[i + 1].app = txns[gi + 1].app
    IN  IF ~(isAppCall /\ i < gi) THEN "panic"
        ELSE IF isAppCall /\ sameApp /\ GetBit(scr[i + 1], i) = 1 THEN "ok"
        ELSE "assert"

\* The audit loop from index i with budget for fuel more iterations:
\* "ok" is Return(Int(1)).
RECURSIVE AuditLoop(_, _, _, _, _, _)
AuditLoop(i, fuel, gi, K, txns, scr) ==
    IF ~(i < K) THEN "ok"
    ELSE IF fuel = 0 THEN "budget"
    ELSE LET body == AuditBody(i, gi, txns, scr)
         IN  IF body # "ok" THEN body
             ELSE AuditLoop(AuditIncrement(i), fuel - 1, gi, K, txns, scr)

\* The indices the audit loop examines from index i on, in order.
RECURSIVE AuditIndices(_, _, _, _, _, _)
AuditIndices(i, fuel, gi, K, txns, scr) ==
    IF ~(i < K) \/ fuel = 0 THEN <<>>
    ELSE IF AuditBody(i, gi, txns, scr) # "ok" THEN <<i>>
    ELSE <<i>> \o AuditIndices(AuditIncrement(i), fuel - 1, gi, K, txns, scr)

\* An audit whose loop body never runs.
check_final_verification_state_Skipped(gi, K, txns, scr) == "ok"

\* An audit that looks only at the bits of the scratch values it can read.
check_final_verification_state_BitsOnly(gi, K, txns, scr) ==
    IF \A i \in 0..(gi - 1) : GetBit(scr[i + 1], i) = 1 THEN "ok" ELSE "assert"

check_final_verification_state(gi, K, txns, scr) ==
    AuditLoop(0, MaxAuditIterations, gi, K, txns, scr)

\* setvphash without the is_creator() operand of its Assert.
setvphash_AnyCaller(txn, K, g) ==
    IF Len(txn.args) < 2 THEN Outcome("panic", g, 0, "none", NoRoute)
    ELSE IF /\ K = 1
            /\ Len(txn.args) = 2
            /\ Len(txn.args[2]) = VPHASH_LEN
         THEN Outcome("approve", [g EXCEPT !.vphash = txn.args[2]], 0, "none", NoRoute)
    ELSE Outcome("panic", g, 0, "none", NoRoute)

\* setvphash, for the transaction txn of a group of K transactions.
setvphash(txn, K, g) ==
    IF Len(txn.args) < 2 THEN Outcome("panic", g, 0, "none", NoRoute)
    ELSE IF /\ is_creator(txn)
            /\ K = 1
            /\ Len(txn.args) = 2
            /\ Len(txn.args[2]) = VPHASH_LEN
         THEN Outcome("approve", [g EXCEPT !.vphash = txn.args[2]], 0, "none", NoRoute)
    ELSE Outcome("panic", g, 0, "none", NoRoute)

\* The Assert of verify without its unit-size operand.
VerifyAssert_AnyUnitSize(txn, gi, K, g) ==
    IF Len(txn.args) < 3 THEN PANIC
    ELSE LET sizeOk == check_guardian_set_size(txn.args[3], g)
             keysOk == check_guardian_key_subset(gi, txn.args[2], g)
         IN  IF sizeOk = PANIC \/ keysOk = PANIC THEN PANIC
             ELSE IF /\ Len(txn.args) = 3
                     /\ txn.sender = g.vphash
                     /\ sizeOk = 1
                     /\ keysOk = 1
                  THEN 1 ELSE 0

\* The Assert of verify: 1 when every operand is 1.
VerifyAssert(txn, gi, K, g) ==
    IF Len(txn.args) < 3 THEN PANIC
    ELSE LET sizeOk == check_guardian_set_size(txn.args[3], g)
             keysOk == check_guardian_key_subset(gi, txn.args[2], g)
         IN  IF sizeOk = PANIC \/ keysOk = PANIC THEN PANIC
             ELSE IF /\ K = get_group_size(g.gscount)
                     /\ Len(txn.args) = 3
                     /\ txn.sender = g.vphash
                     /\ sizeOk = 1
                     /\ keysOk = 1
                  THEN 1 ELSE 0

\* A verify that accepts only while gsexp is 0 and then writes gsexp.
verify_Once(txn, gi, K, prior, priorScr, g) ==
    IF VerifyAssert(txn, gi, K, g) # 1 \/ g.gsexp # 0
    THEN Outcome("panic", g, 0, "none", NoRoute)
    ELSE Outcome(IF gi = K - 1 THEN "panic" ELSE "approve",
                 [g EXCEPT !.gsexp = 1], SetBit(0, gi), "none", NoRoute)

\* A verify that records in gsexp that a step passed.
verify_Stamping(txn, gi, K, prior, priorScr, g) ==
    IF VerifyAssert(txn, gi, K, g) # 1
    THEN Outcome("panic", g, 0, "none", NoRoute)
    ELSE LET bits    == SetBit(0, gi)
             stamped == [g EXCEPT !.gsexp = 1]
         IN  IF gi = K - 1
             THEN LET a == check_final_verification_state(gi, K, Append(prior, txn), priorScr)
                  IN  IF a # "ok" THEN Outcome("panic", stamped, bits, a, NoRoute)
                      ELSE LET c == commit_vaa(txn.note)
                           IN  Outcome(IF c.ret = PANIC THEN "panic"
                                       ELSE IF c.ret = 0 THEN "reject"
                                       ELSE "approve",
                                       stamped, bits, a, c)
             ELSE Outcome("approve", stamped, bits, "none", NoRoute)

\* A verify whose every step, not only the last, runs the audit and the
\* router.
verify_EveryStepFinal(txn, gi, K, prior, priorScr, g) ==
    IF VerifyAssert(txn, gi, K, g) # 1
    THEN Outcome("panic", g, 0, "none", NoRoute)
    ELSE LET bits == SetBit(0, gi)
             a    == check_final_verification_state(gi, K, Append(prior, txn), priorScr)
         IN  IF a # "ok" THEN Outcome("panic", g, bits, a, NoRoute)
             ELSE LET c == commit_vaa(txn.note)
                  IN  Outcome(IF c.ret = PANIC THEN "panic"
                              ELSE IF c.ret = 0 THEN "reject"
                              ELSE "approve",
                              g, bits, a, c)

\* verify, for the transaction txn at group index gi of a group of K
\* transactions; prior and priorScr are the transactions 0..gi-1 and their
\* scratch slot 254.
verify(txn, gi, K, prior, priorScr, g) ==
    IF VerifyAssert(txn, gi, K, g) # 1
    THEN Outcome("panic", g, 0, "none", NoRoute)
    ELSE LET bits == SetBit(0, gi)
         IN  IF gi = K - 1
             THEN LET a == check_final_verification_state(gi, K, Append(prior, txn), priorScr)
                  IN  IF a # "ok" THEN Outcome("panic", g, bits, a, NoRoute)
                      ELSE LET c == commit_vaa(txn.note)
                           IN  Outcome(IF c.ret = PANIC THEN "panic"
                                       ELSE IF c.ret = 0 THEN "reject"
                                       ELSE "approve",
                                       g, bits, a, c)
             ELSE Outcome("approve", g, bits, "none", NoRoute)

\* handle_noop: dispatch on METHOD; a Cond with no true condition fails.
handle_noop(txn, gi, K, prior, priorScr, g) ==
    IF Len(txn.args) < 1 THEN Outcome("panic", g, 0, "none", NoRoute)
    ELSE IF txn.args[1] = METHOD_SETVPHASH THEN setvphash(txn, K, g)
    ELSE IF txn.args[1] = METHOD_VERIFY THEN verify(txn, gi, K, prior, priorScr, g)
    ELSE Outcome("panic", g, 0, "none", NoRoute)

\* The approval program, for a call to this application.
vaa_processor_program(txn, gi, K, prior, priorScr, g) ==
    IF txn.app = "create" THEN bootstrap(txn, g)
    ELSE IF txn.oncomp \in {"UpdateApplication", "DeleteApplication"}
         THEN Outcome(IF is_creator(txn) THEN "approve" ELSE "reject",
                      g, 0, "none", NoRoute)
    ELSE IF txn.oncomp = "NoOp" THEN handle_noop(txn, gi, K, prior, priorScr, g)
    ELSE Outcome("panic", g, 0, "none", NoRoute)

---------------------------------------------------------------------------
(* Inputs *)

\* Two guardian keys; the second is the first with its last byte altered.
KeyA == Rep(GUARDIAN_KEY_LEN, 1)

KeyB == [KeyA EXCEPT ![GUARDIAN_KEY_LEN] = 2]

GuardianKeys == {KeyA, KeyB}

\* The key tables of a registry of n guardians: all keys equal; keys that
\* change from one step's range to the next; keys that change inside every
\* range; a first key that differs from all others.
RegistryKeys(n) ==
    { [i \in 0..(n - 1) |-> KeyA],
      [i \in 0..(n - 1) |->
          IF (i \div MAX_SIGNATURES_PER_VERIFICATION_STEP) % 2 = 0 THEN KeyA ELSE KeyB],
      [i \in 0..(n - 1) |-> IF i % 2 = 0 THEN KeyA ELSE KeyB],
      [i \in 0..(n - 1) |-> IF i = 0 THEN KeyA ELSE KeyB] }

\* The argument bootstrap stores as vphash: a program hash, or a string of
\* another length (bootstrap checks nothing).
BootstrapArgs == {Logic1, Rep(VPHASH_LEN - 1, 1)}

\* Senders of verify calls.
Senders == {Logic1, Logic2}

\* A VAA whose header carries the emitter chain c and the emitter address a
\* (each below 256), big-endian, at the fixed offsets.
Vaa(c, a) ==
    Rep(VAA_RECORD_EMITTER_CHAIN_POS, 0)
    \o Rep(VAA_RECORD_EMITTER_CHAIN_LEN - 1, 0) \o <<c>>
    \o Rep(VAA_RECORD_EMITTER_ADDR_LEN - 1, 0) \o <<a>>

UnitPayloads ==
    { Vaa(GOVERNANCE_CHAIN_ID_TEST, GOVERNANCE_CONTRACT_ID_TEST),
      Vaa(PYTH2WORMHOLE_CHAIN_ID_TEST, PYTH2WORMHOLE_CONTRACT_ID_TEST),
      Vaa(7, 9) }

\* Guardian-key-subset arguments: up to a full step of keys.
RECURSIVE KeyStrings(_)
KeyStrings(n) ==
    IF n = 0 THEN {<<>>}
    ELSE KeyStrings(n - 1) \cup
         { s \o k : s \in { t \in KeyStrings(n - 1) : Len(t) = (n - 1) * GUARDIAN_KEY_LEN },
                    k \in GuardianKeys }

KeyArgs == KeyStrings(MAX_SIGNATURES_PER_VERIFICATION_STEP)

\* Guardian-set-size arguments around the registry's count n: n, n with a
\* leading zero byte, n + 1, and n in nine bytes.
SizeArgs(n) == { <<n>>, <<0, n>>, <<n + 1>>, Rep(BTOI_MAX_LEN, 0) \o <<n>> }

AppCall(sender, args, note) ==
    [type |-> "appl", app |-> "this", oncomp |-> "NoOp", sender |-> sender,
     args |-> args, note |-> note, fscratch |-> 0]

VerifyArgs(n) ==
    { <<METHOD_VERIFY, k, s>> : k \in KeyArgs, s \in SizeArgs(n) }
    \cup { <<METHOD_VERIFY, <<>>>> }
    \cup { <<METHOD_VERIFY, k, <<n>>, <<>>>> : k \in KeyArgs }

\* The verify calls offered against a registry of n guardians, as the state
\* holds them; the note is the unit's payload, set when the call is made.
VerifyTxns ==
    [n \in 0..MaxGuardians |->
        { PackTxn(AppCall(sender, args, <<>>)) :
              sender \in Senders, args \in VerifyArgs(n) }]

HashArgs == { Logic1, Logic2, Rep(VPHASH_LEN - 1, 2), Rep(VPHASH_LEN + 1, 2) }

SetVpHashArgs ==
    { <<METHOD_SETVPHASH, h>> : h \in HashArgs }
    \cup { <<METHOD_SETVPHASH>>, <<METHOD_SETVPHASH, Logic2, Logic2>> }

SetVpHashTxns ==
    { PackTxn(AppCall(sender, args, <<>>)) :
          sender \in {Creator, Logic1}, args \in SetVpHashArgs }

\* Transactions of the unit that are not calls to this application: a
\* payment, or a call to another application, which leaves what it likes
\* in its scratch slot 254.
AllBits == Pow2(MaxGroupSize) - 1

ForeignTxns ==
    { PackTxn([type |-> "pay", app |-> "none", oncomp |-> "NoOp", sender |-> Logic1,
               args |-> <<>>, note |-> <<>>, fscratch |-> 0]) }
    \cup { PackTxn([type |-> "appl", app |-> "other", oncomp |-> "NoOp",
                    sender |-> Logic1, args |-> <<>>, note |-> <<>>,
                    fscratch |-> f]) : f \in {0, AllBits} }

\* Calls to this application with an on-completion other than NoOp: an
\* update, a delete, and an opt-in (for which the program has no branch).
LifecycleTxns ==
    { PackTxn([type |-> "appl", app |-> "this", oncomp |-> oc, sender |-> sender,
               args |-> <<>>, note |-> <<>>, fscratch |-> 0]) :
          oc \in {"UpdateApplication", "DeleteApplication", "OptIn"},
          sender \in {Creator, Logic1} }

\* txn is a DeleteApplication call to this application.
DeletesApplication(txn) ==
    txn.type = "appl" /\ txn.app = "this" /\ txn.oncomp = "DeleteApplication"

---------------------------------------------------------------------------
(* The state machine *)

Init ==
    /\ \E h \in BootstrapArgs, n \in 0..MaxGuardians :
          \E k \in RegistryKeys(n) :
             globalState =
                PackGlobal([vphash |-> h, gsexp |-> 0, gscount |-> n, keys |-> k])
    /\ savedState = globalState
    /\ status = "idle"
    /\ gsize = 0
    /\ payload = <<>>
    /\ group = <<>>
    /\ scratch = <<>>
    /\ bitfields = <<>>
    /\ audit = "none"
    /\ routed = NoRoute
    /\ handled = <<>>
    /\ installed = TRUE
    /\ earlier = NoUnit
    /\ partition = NoPartition

\* A unit of k transactions carrying the VAA p is submitted.
BeginUnit ==
    /\ status = "idle"
    /\ installed
    /\ earlier = NoUnit
    /\ \E k \in 1..MaxGroupSize, p \in UnitPayloads :
          /\ gsize' = k
          /\ payload' = Pack(p)
    /\ status' = "running"
    /\ savedState' = globalState
    /\ UNCHANGED <<globalState, group, scratch, bitfields, audit, routed, handled,
                   installed, earlier, partition>>

\* The effect of evaluating the unit's next transaction txn with outcome out:
\* an approved transaction keeps its writes and its scratch space, and the
\* unit commits after its last transaction; any other outcome aborts the unit,
\* which rolls the global state back.  Scratch space does not outlive the unit.
\* A committed unit with an approved DeleteApplication call deletes the
\* application.
Evaluate(txn, out) ==
    /\ group' = Append(group, txn)
    /\ bitfields' = Append(bitfields, out.scr)
    /\ audit' = IF out.audit # "none" THEN out.audit ELSE audit
    /\ routed' = IF out.audit = "ok" THEN out.routed ELSE routed
    /\ handled' = IF out.routed.handler # "none"
                  THEN Append(handled, out.routed.handler) ELSE handled
    /\ IF out.result = "approve"
       THEN /\ globalState' = PackGlobal(out.gstate)
            /\ IF Len(group) + 1 = gsize
               THEN /\ status' = "committed"
                    /\ scratch' = <<>>
                    /\ installed' = (installed /\ ~DeletesApplication(txn))
               ELSE /\ status' = "running"
                    /\ scratch' = Append(scratch, out.scr)
                    /\ installed' = installed
       ELSE /\ globalState' = savedState
            /\ status' = "aborted"
            /\ scratch' = <<>>
            /\ installed' = installed
    /\ UNCHANGED <<savedState, gsize, payload, earlier, partition>>

\* The next transaction of the unit is a verify call.
VerifyStep ==
    /\ status = "running"
    /\ \E t \in VerifyTxns[globalState.gscount] :
          LET txn == [t EXCEPT !.note = payload]
          IN  Evaluate(txn, vaa_processor_program(UnpackTxn(txn), Len(group), gsize,
                                                  group, scratch,
                                                  UnpackGlobal(globalState)))

\* The next transaction of the unit is a setvphash call.
SetVpHashStep ==
    /\ status = "running"
    /\ \E t \in SetVpHashTxns :
          LET txn == [t EXCEPT !.note = payload]
          IN  Evaluate(txn, vaa_processor_program(UnpackTxn(txn), Len(group), gsize,
                                                  group, scratch,
                                                  UnpackGlobal(globalState)))

\* The last transaction of the unit is a call to this application with
\* another on-completion.  An approved UpdateApplication installs this
\* program again.
LifecycleStep ==
    /\ status = "running"
    /\ Len(group) + 1 = gsize
    /\ \E t \in LifecycleTxns :
          LET txn == [t EXCEPT !.note = payload]
          IN  /\ Evaluate(txn, vaa_processor_program(UnpackTxn(txn), Len(group),
                                                     gsize, group, scratch,
                                                     UnpackGlobal(globalState)))

\* The next transaction of the unit is not a call to this application.
ForeignStep ==
    /\ status = "running"
    /\ \E t \in ForeignTxns :
          LET txn == [t EXCEPT !.note = payload]
          IN  Evaluate(txn, Outcome("approve", UnpackGlobal(globalState),
                                    txn.fscratch, "none", NoRoute))

\* The unit is over; the next one starts from a clean slate.
EndUnit ==
    /\ status \in {"committed", "aborted"}
    /\ status' = "idle"
    /\ gsize' = 0
    /\ payload' = <<>>
    /\ group' = <<>>
    /\ scratch' = <<>>
    /\ bitfields' = <<>>
    /\ audit' = "none"
    /\ routed' = NoRoute
    /\ handled' = <<>>
    /\ savedState' = globalState
    /\ earlier' = NoUnit
    /\ UNCHANGED <<globalState, installed, partition>>

Next ==
    BeginUnit \/ VerifyStep \/ SetVpHashStep \/ LifecycleStep \/ ForeignStep \/ EndUnit

Spec == Init /\ [][Next]_vars

---------------------------------------------------------------------------
(* PayloadRouter on its own: commit_vaa applied to a payload *)

\* Payloads for the router: every combination of a chain field, an address
\* field and a body, and payloads too short to hold a header.
ChainFields == { <<0, 3>>, <<0, 5>>, <<0, 7>>, <<3, 0>>, <<0, 0>> }

AddressFields ==
    { Rep(VAA_RECORD_EMITTER_ADDR_LEN - 1, 0) \o <<a>> : a \in {0, 4, 6, 9} }
    \cup { Rep(VAA_RECORD_EMITTER_ADDR_LEN - 2, 0) \o <<1, 4>> }

RouterPayloads ==
    { Rep(VAA_RECORD_EMITTER_CHAIN_POS, 0) \o c \o a \o b :
          c \in ChainFields, a \in AddressFields, b \in {<<>>, <<1>>} }
    \cup { Rep(n, 0) : n \in {0, VAA_RECORD_EMITTER_ADDR_POS - 1,
                              VAA_RECORD_EMITTER_ADDR_POS + VAA_RECORD_EMITTER_ADDR_LEN - 1} }

RouterInit ==
    /\ globalState =
          PackGlobal([vphash |-> Logic1, gsexp |-> 0, gscount |-> 0, keys |-> <<>>])
    /\ savedState = globalState
    /\ status = "routing"
    /\ gsize = 0
    /\ payload \in { Pack(p) : p \in RouterPayloads }
    /\ group = <<>>
    /\ scratch = <<>>
    /\ bitfields = <<>>
    /\ audit = "none"
    /\ routed = NoRoute
    /\ handled = <<>>
    /\ installed = TRUE
    /\ earlier = NoUnit
    /\ partition = NoPartition

\* commit_vaa is applied to the payload.
RoutePayload ==
    /\ status = "routing"
    /\ routed' = commit_vaa(Unpack(payload))
    /\ handled' = IF routed'.handler # "none" THEN <<routed'.handler>> ELSE <<>>
    /\ status' = "routed"
    /\ UNCHANGED <<globalState, savedState, gsize, payload, group, scratch,
                   bitfields, audit, installed, earlier, partition>>

RouterNext == RoutePayload

SpecRouter == RouterInit /\ [][RouterNext]_vars

---------------------------------------------------------------------------
(* Resubmission: the bytes of a finished unit are submitted again *)

\* The unit that just finished is submitted again as a new unit: the same
\* size, the same payload, and (ReplayStep) the same transactions.
BeginReplay ==
    /\ status \in {"committed", "aborted"}
    /\ installed
    /\ earlier = NoUnit
    /\ earlier' = [status |-> status, registry |-> savedState, after |-> globalState,
                   group |-> group, bitfields |-> bitfields, audit |-> audit,
                   routed |-> routed, handled |-> handled]
    /\ status' = "running"
    /\ savedState' = globalState
    /\ group' = <<>>
    /\ scratch' = <<>>
    /\ bitfields' = <<>>
    /\ audit' = "none"
    /\ routed' = NoRoute
    /\ handled' = <<>>
    /\ UNCHANGED <<globalState, gsize, payload, installed, partition>>

\* The next transaction of the resubmitted unit is evaluated.
ReplayStep ==
    /\ status = "running"
    /\ earlier # NoUnit
    /\ Len(group) < Len(earlier.group)
    /\ LET txn == earlier.group[Len(group) + 1]
       IN  IF txn.type = "appl" /\ txn.app = "this"
           THEN Evaluate(txn, vaa_processor_program(UnpackTxn(txn), Len(group), gsize,
                                                    group, scratch,
                                                    UnpackGlobal(globalState)))
           ELSE Evaluate(txn, Outcome("approve", UnpackGlobal(globalState),
                                      txn.fscratch, "none", NoRoute))

\* The first submission of a unit of verify calls and foreign transactions.
FirstRun ==
    /\ earlier = NoUnit
    /\ (VerifyStep \/ ForeignStep)

ReplayNext == BeginUnit \/ FirstRun \/ BeginReplay \/ ReplayStep \/ EndUnit

\* Resubmission is explored from the registries whose keys are all equal and
\* whose verifier hash is a program hash.
ReplayInit ==
    /\ Init
    /\ \E n \in 0..MaxGuardians :
          globalState = PackGlobal([vphash |-> Logic1, gsexp |-> 0, gscount |-> n,
                                    keys |-> [i \in 0..(n - 1) |-> KeyA]])

SpecReplay == ReplayInit /\ [][ReplayNext]_vars

---------------------------------------------------------------------------
(* StepPartitioner on its own: the ranges of n guardians at capacity m *)

PartitionInit ==
    /\ globalState =
          PackGlobal([vphash |-> Logic1, gsexp |-> 0, gscount |-> 0, keys |-> <<>>])
    /\ savedState = globalState
    /\ status = "partitioning"
    /\ gsize = 0
    /\ payload = <<>>
    /\ group = <<>>
    /\ scratch = <<>>
    /\ bitfields = <<>>
    /\ audit = "none"
    /\ routed = NoRoute
    /\ handled = <<>>
    /\ installed = TRUE
    /\ earlier = NoUnit
    /\ \E n \in 0..MaxPartitionGuardians, m \in 1..MaxStepCapacity :
          partition = [n |-> n, m |-> m, ranges |-> <<>>]

\* The range of the next step is computed, while a step is left.
PartitionStep ==
    /\ status = "partitioning"
    /\ Len(partition.ranges) < StepCount(partition.n, partition.m)
    /\ LET i == Len(partition.ranges)
       IN  partition' =
              [partition EXCEPT
                  !.ranges = Append(@, << RangeLo(i, partition.m),
                                         RangeHi(i, partition.n, partition.m) >>)]
    /\ UNCHANGED <<globalState, savedState, status, gsize, payload, group, scratch,
                   bitfields, audit, routed, handled, installed, earlier>>

PartitionNext == PartitionStep

SpecPartition == PartitionInit /\ [][PartitionNext]_vars

---------------------------------------------------------------------------
(* What the properties below speak of *)

Finished == status \in {"committed", "aborted"}

\* The global state, the j-th transaction of the unit (from 1) and the
\* payload, as byte strings.
G == UnpackGlobal(globalState)

T(j) == UnpackTxn(group[j])

P == Unpack(payload)

IsThisAppCall(t) == t.type = "appl" /\ t.app = "this"

IsVerifyCall(t) ==
    /\ IsThisAppCall(t)
    /\ t.oncomp = "NoOp"
    /\ Len(t.args) >= 1
    /\ t.args[1] = METHOD_VERIFY

IsSetVpHashCall(t) ==
    /\ IsThisAppCall(t)
    /\ t.oncomp = "NoOp"
    /\ Len(t.args) >= 1
    /\ t.args[1] = METHOD_SETVPHASH

\* The unit's size is stepCount for the registry's guardian count.
UnitSizeOk(g) == gsize = StepCount(g.gscount, MAX_SIGNATURES_PER_VERIFICATION_STEP)

\* The caller of t is the stored verifier hash.
CallerIsVerifier(t, g) == t.sender = g.vphash

\* The guardian-set size t claims is the registry's.
ClaimsRegistrySize(t, g) ==
    /\ Len(t.args) >= 3
    /\ BigEndian(t.args[3]) = g.gscount

\* The key t supplies at offset off of its guardian-key-subset argument.
SuppliedKey(t, off) ==
    IF Len(t.args) >= 2 /\ (off + 1) * GUARDIAN_KEY_LEN <= Len(t.args[2])
    THEN SubSeq(t.args[2], off * GUARDIAN_KEY_LEN + 1, (off + 1) * GUARDIAN_KEY_LEN)
    ELSE <<>>

\* For every position p of step i's signer range, the key t supplies at
\* offset p - i*M is the registry's key p.
KeysMatchRange(t, i, g) ==
    \A p \in RangeLo(i, MAX_SIGNATURES_PER_VERIFICATION_STEP)
             ..(RangeHi(i, g.gscount, MAX_SIGNATURES_PER_VERIFICATION_STEP) - 1) :
        SuppliedKey(t, p - RangeLo(i, MAX_SIGNATURES_PER_VERIFICATION_STEP)) = g.keys[p]

\* t, at group index i, meets every precondition of a verify step.
StepPreconditions(t, i, g) ==
    /\ UnitSizeOk(g)
    /\ Len(t.args) = 3
    /\ CallerIsVerifier(t, g)
    /\ ClaimsRegistrySize(t, g)
    /\ Len(t.args[3]) <= BTOI_MAX_LEN
    /\ KeysMatchRange(t, i, g)

\* The (emitterChainId, emitterAddress) pair the header of payload p encodes.
HeaderOrigin(p) ==
    IF Len(p) >= VAA_RECORD_EMITTER_ADDR_POS + VAA_RECORD_EMITTER_ADDR_LEN
    THEN << BigEndian(SubSeq(p, VAA_RECORD_EMITTER_CHAIN_POS + 1,
                             VAA_RECORD_EMITTER_CHAIN_POS + VAA_RECORD_EMITTER_CHAIN_LEN)),
            BigEndian(SubSeq(p, VAA_RECORD_EMITTER_ADDR_POS + 1,
                             VAA_RECORD_EMITTER_ADDR_POS + VAA_RECORD_EMITTER_ADDR_LEN)) >>
    ELSE << PANIC, PANIC >>

GovernanceOrigin == << GOVERNANCE_CHAIN_ID_TEST, GOVERNANCE_CONTRACT_ID_TEST >>

ApplicationOrigin == << PYTH2WORMHOLE_CHAIN_ID_TEST, PYTH2WORMHOLE_CONTRACT_ID_TEST >>

RoutingTable == { GovernanceOrigin, ApplicationOrigin }

\* Every step of the unit is a call to this application that left its own
\* bit set.
AuditedAll ==
    /\ Len(group) = gsize
    /\ \A j \in 1..Len(group) :
          IsThisAppCall(T(j)) /\ GetBit(bitfields[j], j - 1) = 1

---------------------------------------------------------------------------
(* Properties *)

\* C1: a unit of stepCount(N) verify steps, N >= 1, each with the verifier
\* as caller, the registry's size as claimed size and the registry's keys of
\* its own range as key subset, carrying a payload of a routable origin,
\* commits, and exactly one handler is invoked.
C1_CorrectUnitCommits ==
    ( /\ Finished
      /\ globalState.gscount >= 1
      /\ HeaderOrigin(P) \in RoutingTable
      /\ \A j \in 1..Len(group) :
            IsVerifyCall(T(j)) /\ StepPreconditions(T(j), j - 1, G) )
    => ( /\ status = "committed"
         /\ Len(group) = gsize
         /\ Len(handled) = 1 )

\* C2: once a unit is over, if one of its verify steps failed a precondition
\* then the unit aborted: no scratch bit is left, no handler was invoked and
\* the registry is what it was when the unit began.
C2_FailedStepAbortsUnit ==
    ( /\ Finished
      /\ \E j \in 1..Len(group) :
            IsVerifyCall(T(j)) /\ ~StepPreconditions(T(j), j - 1, G) )
    => ( /\ status = "aborted"
         /\ scratch = <<>>
         /\ handled = <<>>
         /\ globalState = savedState )

\* C3: the audit passes, and a handler is invoked, only in a unit whose every
\* step is a call to this application with its own bit set; when the final
\* step runs the audit on any other unit, the unit is rejected and no
\* handler runs.
C3_HandlerOnlyAfterFullAudit ==
    /\ (audit = "ok" \/ handled # <<>>) => AuditedAll
    /\ (audit # "none" /\ ~AuditedAll) => (status = "aborted" /\ handled = <<>>)

C3_Witness ==
    /\ status = "aborted"
    /\ audit = "assert"
    /\ Len(group) = gsize
    /\ \E j \in 1..Len(group) : ~IsThisAppCall(T(j))
    /\ IsVerifyCall(T(Len(group)))

\* C4: the final step rejects a unit one of whose steps is not a call to
\* this application, whatever bits the scratch value of that step holds.
C4_ForeignStepRejected ==
    ( /\ audit # "none"
      /\ \E j \in 1..Len(group) : ~IsThisAppCall(T(j)) )
    => ( /\ audit \in {"assert", "panic", "budget"}
         /\ status = "aborted"
         /\ routed = NoRoute
         /\ handled = <<>> )

C4_Witness ==
    /\ status = "aborted"
    /\ audit # "none"
    /\ \E j \in 1..Len(group) :
          /\ T(j).type = "appl"
          /\ T(j).app = "other"
          /\ GetBit(bitfields[j], j - 1) = 1

\* C5: a verify step whose other preconditions hold passes (and sets its
\* bit) if and only if the keys it supplies are the registry's keys of its
\* signer range [i*M, min((i+1)*M, N)).
C5_KeyCheckIsRangeMatch ==
    \A j \in 1..Len(group) :
        ( /\ IsVerifyCall(T(j))
          /\ UnitSizeOk(G)
          /\ Len(T(j).args) = 3
          /\ CallerIsVerifier(T(j), G)
          /\ ClaimsRegistrySize(T(j), G)
          /\ Len(T(j).args[3]) <= BTOI_MAX_LEN )
        => ( GetBit(bitfields[j], j - 1) = 1
             <=> KeysMatchRange(T(j), j - 1, G) )

\* C6: a payload whose header encodes the registered application origin
\* (5, 6) is dispatched to the price-ticker handler, whose result is the
\* outcome.
C6_ApplicationOriginRouted ==
    (status = "routed" /\ HeaderOrigin(P) = ApplicationOrigin)
    => ( /\ routed.handler = "pyth"
         /\ routed.ret = handle_pyth_price_ticker
         /\ handled = <<"pyth">> )

\* C7: a payload whose origin is no entry of the routing table is rejected
\* by the router and no handler is invoked.
C7_UnregisteredOriginRejected ==
    (status = "routed" /\ HeaderOrigin(P) \notin RoutingTable)
    => ( /\ routed.handler = "none"
         /\ routed.ret # 1
         /\ handled = <<>> )

C7_Witness ==
    /\ status = "routed"
    /\ HeaderOrigin(P) = <<PYTH2WORMHOLE_CHAIN_ID_TEST, GOVERNANCE_CONTRACT_ID_TEST>>
    /\ routed.handler = "none"

\* C8: a payload whose header encodes the governance origin (3, 4) is
\* dispatched to the governance handler, once, and to no other handler.
C8_GovernanceOriginRouted ==
    (status = "routed" /\ HeaderOrigin(P) = GovernanceOrigin)
    => ( /\ routed.handler = "governance"
         /\ handled = <<"governance">> )

\* C9: a setvphash call overwrites the stored verifier hash with its argument
\* if and only if its caller is the creator, it is the only transaction of
\* its unit and exactly one argument, of length 32, follows the selector; in
\* every other case the call fails and the stored hash is unchanged.
C9_SetVpHashGuarded ==
    (Len(group) >= 1 /\ IsSetVpHashCall(T(Len(group))))
    => LET t  == T(Len(group))
           ok == /\ t.sender = Creator
                 /\ gsize = 1
                 /\ Len(t.args) = 2
                 /\ Len(t.args[2]) = VPHASH_LEN
       IN  IF ok
           THEN /\ status = "committed"
                /\ G = [UnpackGlobal(savedState) EXCEPT !.vphash = t.args[2]]
           ELSE /\ status = "aborted"
                /\ globalState = savedState

C9_Witness ==
    /\ status = "committed"
    /\ IsSetVpHashCall(T(1))
    /\ G.vphash = T(1).args[2]
    /\ globalState.vphash # savedState.vphash

\* C10: a verify step is rejected, its bit unset, whenever the unit's size is
\* not stepCount(N), or its caller is not the stored verifier hash, or its
\* claimed size is not N; a step whose bit is set passed all three.
C10_StepGuards ==
    \A j \in 1..Len(group) :
        IsVerifyCall(T(j))
        => LET t     == T(j)
               three == /\ UnitSizeOk(G)
                        /\ CallerIsVerifier(t, G)
                        /\ ClaimsRegistrySize(t, G)
           IN  /\ ~three => ( /\ bitfields[j] = 0
                              /\ j = Len(group)
                              /\ status = "aborted"
                              /\ scratch = <<>> )
               /\ GetBit(bitfields[j], j - 1) = 1 => three

C10_Witness ==
    /\ status = "aborted"
    /\ Len(group) = 2
    /\ GetBit(bitfields[1], 0) = 1
    /\ IsVerifyCall(T(2))
    /\ bitfields[2] = 0
    /\ ~CallerIsVerifier(T(2), G)
    /\ UnitSizeOk(G)
    /\ ClaimsRegistrySize(T(2), G)

\* The partition of partition.n guardians is complete.
PartitionComplete ==
    /\ status = "partitioning"
    /\ Len(partition.ranges) = StepCount(partition.n, partition.m)

\* C11: for N >= 1 guardians and capacity M >= 1 the complete partition has
\* ceil(N/M) ranges, the first starts at 0, the last ends at N, each range
\* is non-empty and at most M wide and starts where the one before it ends,
\* so that every index of [0, N) lies in exactly one range.
C11_RangesPartition ==
    (PartitionComplete /\ partition.n >= 1)
    => LET r == partition.ranges
           k == Len(r)
       IN  /\ k * partition.m >= partition.n
           /\ (k - 1) * partition.m < partition.n
           /\ r[1][1] = 0
           /\ r[k][2] = partition.n
           /\ \A i \in 1..k : r[i][1] < r[i][2] /\ r[i][2] - r[i][1] <= partition.m
           /\ \A i \in 1..(k - 1) : r[i][2] = r[i + 1][1]
           /\ \A x \in 0..(partition.n - 1) :
                 Cardinality({ i \in 1..k : r[i][1] <= x /\ x < r[i][2] }) = 1

\* 5 guardians at capacity 2: the ranges [0,2) [2,4) [4,5).
C11_Witness ==
    /\ PartitionComplete
    /\ partition.n = 5
    /\ partition.m = 2
    /\ partition.ranges = << <<0, 2>>, <<2, 4>>, <<4, 5>> >>

\* The resubmitted unit is over.
ReplayFinished == earlier # NoUnit /\ Finished

\* The earlier unit held a verify call and no other call to this application.
EarlierVerifyUnit ==
    /\ \E j \in 1..Len(earlier.group) : IsVerifyCall(UnpackTxn(earlier.group[j]))
    /\ \A j \in 1..Len(earlier.group) :
          IsThisAppCall(UnpackTxn(earlier.group[j]))
          => IsVerifyCall(UnpackTxn(earlier.group[j]))

\* The resubmitted unit ended as the earlier one did: the same
\* transactions evaluated, the same bits, the same audit and routing
\* results, the same handlers, the same outcome and global state.
SameOutcome ==
    /\ status = earlier.status
    /\ group = earlier.group
    /\ bitfields = earlier.bitfields
    /\ audit = earlier.audit
    /\ routed = earlier.routed
    /\ handled = earlier.handled
    /\ globalState = earlier.after

AuditRan == audit # "none"

\* The indices the audit of this unit examined, in order.
Examined ==
    AuditIndices(0, MaxAuditIterations, Len(group) - 1, gsize, group,
                 SubSeq(bitfields, 1, Len(group) - 1))

\* C13: the audit run by the last step of a unit terminates within its
\* budget, and the indices it examines are 0, 1, 2, ... in this order, each
\* once; it examines all of 0..K-1 unless it rejects.
C13_AuditTerminates ==
    AuditRan
    => /\ audit # "budget"
       /\ \A p \in 1..Len(Examined) : Examined[p] = p - 1
       /\ audit = "ok" => Len(Examined) = gsize

\* The Assert of verify held for the j-th transaction of the unit (from 1),
\* against the registry the unit began with.
PassedChecks(j) == VerifyAssert(T(j), j - 1, gsize, UnpackGlobal(savedState)) = 1

LastIsPassedVerify ==
    /\ Len(group) >= 1
    /\ IsVerifyCall(T(Len(group)))
    /\ bitfields[Len(group)] # 0

EvaluatesVerifyCall ==
    /\ Len(group') = Len(group) + 1
    /\ IsVerifyCall(UnpackTxn(group'[Len(group')]))

\* C16: a step that evaluates a verify call, whether it is approved or
\* aborts the unit, leaves the guardian keys, the guardian count, the
\* expiration and the verifier hash as they were.
C16_VerifyLeavesRegistry ==
    [][EvaluatesVerifyCall => globalState' = globalState]_vars

\* A committed unit one of whose transactions is a verify call that passed
\* its checks.
C16_Witness ==
    /\ status = "committed"
    /\ \E j \in 1..Len(group) : IsVerifyCall(T(j)) /\ bitfields[j] # 0

\* t is an UpdateApplication or DeleteApplication call to this application.
IsLifecycleCall(t) ==
    IsThisAppCall(t) /\ t.oncomp \in {"UpdateApplication", "DeleteApplication"}

\* The program approved the j-th transaction of the unit (from 1): every
\* transaction but the one that aborted the unit.
Approved(j) == j < Len(group) \/ status # "aborted"

\* Every approved update or delete call of the unit came from the creator.
LifecycleByOwnerOnly ==
    \A j \in 1..Len(group) :
        (IsLifecycleCall(T(j)) /\ Approved(j)) => T(j).sender = Creator

\* This step changes the stored verifier hash only by evaluating a
\* setvphash call of the creator, to the hash the call carries.
HashSetByOwnerOnly ==
    globalState'.vphash # globalState.vphash
    => /\ Len(group') = Len(group) + 1
       /\ status' = "committed"
       /\ LET t == UnpackTxn(group'[Len(group')])
          IN  /\ IsSetVpHashCall(t)
              /\ t.sender = Creator
              /\ Len(t.args) = 2
              /\ Unpack(globalState'.vphash) = t.args[2]

\* C17: the stored verifier hash changes only in a successful setvphash call
\* by the creator, to the value of that call (so it is always the value given
\* at creation or that of the most recent such call), and an update or
\* delete call is approved only when its sender is the creator.
C17_OwnerGatedHashAndLifecycle ==
    [][HashSetByOwnerOnly]_vars /\ []LifecycleByOwnerOnly

\* The creator has set the hash to another program's and then deleted the
\* application.
C17_Witness ==
    /\ ~installed
    /\ Len(group) >= 1
    /\ IsLifecycleCall(T(Len(group)))
    /\ T(Len(group)).sender = Creator
    /\ G.vphash = Logic2

\* C18: while the registry's guardian count is 0, stepCount is 0, so no
\* unit has the size a verify step requires: every verify call fails its
\* checks with its bit unset and aborts its unit, and no handler is invoked.
C18_EmptyRegistryVerifiesNothing ==
    globalState.gscount = 0
    => /\ StepCount(0, MAX_SIGNATURES_PER_VERIFICATION_STEP) = 0
       /\ handled = <<>>
       /\ \A j \in 1..Len(group) :
             IsVerifyCall(T(j))
             => /\ ~UnitSizeOk(G)
                /\ bitfields[j] = 0
                /\ j = Len(group)
                /\ status = "aborted"

\* With no guardian registered, a verify call from the verifier that claims
\* the registry's size 0 was the only transaction of its unit.
C18_Witness ==
    /\ globalState.gscount = 0
    /\ gsize = 1
    /\ Len(group) = 1
    /\ IsVerifyCall(T(1))
    /\ Len(T(1).args) = 3
    /\ CallerIsVerifier(T(1), G)
    /\ ClaimsRegistrySize(T(1), G)
    /\ status = "aborted"

====
